---- MODULE Spec2Model ----
(***************************************************************************)
(* A model of OpenZWave's logging manager, cpp/src/platform/Log.cpp.       *)
(*                                                                         *)
(* The process-wide state is the singleton pointer s_instance, the static  *)
(* sink vector m_pImpls, the static flag s_dologging and the mutex owned   *)
(* by the instance.  Callers are threads; every statement of Log.cpp that  *)
(* reads or writes the shared state is one step of the calling thread, so  *)
(* that two calls interleave exactly where the code lets them.             *)
(***************************************************************************)
EXTENDS Integers, Sequences, FiniteSets, TLC

\* ---------------------------------------------------------------- bounds
NThreads == 2        \* calling threads
NSinks == 3          \* sink objects (i_LogImpl*) the heap holds, serial callers
MaxSinks == 3        \* cap on the length of m_pImpls, serial callers
ConcSinks == 2       \* sink objects the heap holds, concurrent callers
ConcMaxSinks == 2    \* cap on the length of m_pImpls, concurrent callers
NFileNames == 1      \* distinct file names handed to SetLogFileName

\* ------------------------------------------------- LogLevel (Log.cpp:44-58)
LogLevel_Invalid == 0
LogLevel_None == 1
LogLevel_Always == 2
LogLevel_Fatal == 3
LogLevel_Error == 4
LogLevel_Warning == 5
LogLevel_Alert == 6
LogLevel_Info == 7
LogLevel_Detail == 8
LogLevel_Debug == 9
LogLevel_StreamDetail == 10
LogLevel_Internal == 11

LogLevel == LogLevel_Invalid..LogLevel_Internal


NULL == 0
Threads == 1..NThreads
FileNames == 1..NFileNames

VARIABLES
    s_instance,    \* Log::s_instance: NULL or the live Log object
    logs,          \* the Log objects allocated and not yet deleted
    m_pImpls,      \* Log::m_pImpls: the sinks, in registration order
    s_dologging,   \* the file-static enabled flag
    m_logMutex,    \* owner of s_instance->m_logMutex, NULL when free
    impl,          \* per sink object: "live", or "free" (not allocated, or deleted)
    crashed,       \* the process ended on undefined behaviour
    serial,        \* the callers make one call at a time (fixed at Init)
    pc,            \* per thread: the statement it is about to execute
    op,            \* per thread: the call in progress and its arguments
    prevLogging,   \* per thread: the local prevLogging of SetLoggingState
    it,            \* per thread: the iterator of the current loop, as an index
    out,           \* history, per thread: sink methods the call invoked so far
    pre,           \* history, per thread: instance, flag, list when it began
    acq            \* history, per thread: mutex acquisitions of the call

\* The sink objects, and the cap on the list, for the callers of the run.
Sinks == 1..(IF serial THEN NSinks ELSE ConcSinks)
ListCap == IF serial THEN MaxSinks ELSE ConcMaxSinks

shared == <<s_instance, logs, m_pImpls, s_dologging, m_logMutex, impl, crashed>>
local == <<pc, op, prevLogging, it, out, pre, acq>>
vars == <<s_instance, logs, m_pImpls, s_dologging, m_logMutex, impl, crashed,
          serial, pc, op, prevLogging, it, out, pre, acq>>

\* ---------------------------------------------------------------- helpers
NoOp == [name |-> "none", level |-> 0, on |-> FALSE, sink |-> 0,
         append |-> FALSE, tagged |-> FALSE, fname |-> 0]

NoPre == [inst |-> NULL, flag |-> FALSE, list |-> <<>>]

Snapshot == [inst |-> s_instance, flag |-> s_dologging, list |-> m_pImpls]

\* One invocation of a sink method: m the method, s the sink, a its argument
\* (the level of a write or setSaveLevel, the name of a setTarget), n the
\* node id and f the format string of a write.
Ev(m, s, a, n, f) == [m |-> m, s |-> s, a |-> a, n |-> n, f |-> f]

AllIdle == \A t \in Threads : pc[t] = "idle"

\* A faulty Guard: the enabled flag is not tested.
GuardIgnoringFlag == s_instance # NULL /\ Len(m_pImpls) > 0

\* The test that opens Write, SetLogFileName and the propagation of
\* SetLoggingState(LogLevel).
Guard == s_instance # NULL /\ s_dologging /\ Len(m_pImpls) > 0

\* Invoking a method of a sink object that was deleted is undefined.
UseAfterFree(s) == impl[s] # "live"

\* Undefined behaviour either ends the process or goes unnoticed.
Undefined(ub) == crashed' \in (IF ub THEN {TRUE, FALSE} ELSE {FALSE})

\* The levels the callers pass.  Serial callers pass every level of the
\* enumeration.  Concurrent callers pass one level on each side of the only
\* test the callee makes of it: "_level != LogLevel_Internal" in Write,
\* "_saveLevel > LogLevel_Always" in SetLoggingState.
WriteLevels ==
    IF serial THEN LogLevel ELSE {LogLevel_Info, LogLevel_Internal}

SaveLevels ==
    IF serial THEN LogLevel ELSE {LogLevel_Always, LogLevel_Info}

\* The histories out, pre and acq say what one call did.  They are kept for
\* serial callers only: they are not state of the program, and with calls
\* interleaved they multiply the states beyond what can be enumerated.
Record(h, e) == IF serial THEN Append(h, e) ELSE h

\* Thread t may begin a call: it is idle, and with serial callers so is
\* every other thread.
CanCall(t) == ~crashed /\ pc[t] = "idle" /\ (serial => AllIdle)

\* A call begins: thread t records the call and where it starts.
Begin(t, call, first) ==
    /\ CanCall(t)
    /\ pc' = [pc EXCEPT ![t] = first]
    /\ op' = [op EXCEPT ![t] = call]
    /\ pre' = [pre EXCEPT ![t] = IF serial THEN Snapshot ELSE NoPre]
    /\ UNCHANGED serial

Goto(t, from, to) ==
    /\ ~crashed
    /\ pc[t] = from
    /\ pc' = [pc EXCEPT ![t] = to]
    /\ UNCHANGED serial

\* A loop that calls one method on every sink, then goes to `after`.
FanOut(t, at, after, method, arg, node, format) ==
    /\ ~crashed
    /\ pc[t] = at
    /\ IF it[t] <= Len(m_pImpls)
       THEN /\ out' = [out EXCEPT ![t] =
                 Record(@, Ev(method, m_pImpls[it[t]], arg, node, format))]
            /\ it' = [it EXCEPT ![t] = @ + 1]
            /\ Undefined(UseAfterFree(m_pImpls[it[t]]))
            /\ UNCHANGED pc
       ELSE /\ pc' = [pc EXCEPT ![t] = after]
            /\ UNCHANGED <<out, it, crashed>>
    /\ UNCHANGED <<s_instance, logs, m_pImpls, s_dologging, m_logMutex, impl,
                   serial, op, prevLogging, pre, acq>>

\* ------------------------------------------------------------------- Init
\* Nothing is constructed; the statics are zero-initialised (lines 60-62).
InitWith(mode) ==
    /\ serial = mode
    /\ s_instance = NULL
    /\ logs = {}
    /\ m_pImpls = <<>>
    /\ s_dologging = FALSE
    /\ m_logMutex = NULL
    /\ impl = [s \in Sinks |-> "free"]
    /\ crashed = FALSE
    /\ pc = [t \in Threads |-> "idle"]
    /\ op = [t \in Threads |-> NoOp]
    /\ prevLogging = [t \in Threads |-> FALSE]
    /\ it = [t \in Threads |-> 0]
    /\ out = [t \in Threads |-> <<>>]
    /\ pre = [t \in Threads |-> NoPre]
    /\ acq = [t \in Threads |-> 0]

Init == InitWith(FALSE)

\* ------------------------------------------------------------ Mutex
Lock(t) ==
    /\ m_logMutex = NULL
    /\ m_logMutex' = t
    /\ acq' = [acq EXCEPT ![t] = IF serial THEN @ + 1 ELSE @]

Unlock(t) ==
    /\ m_logMutex' = NULL

\* ------------------------------------------------------------ Log::Write
\* The level and node id of the Write in progress: the call's own, or the
\* "Logging started" banner written by SetLoggingState.
WLevel(t) == IF op[t].name = "Write" THEN op[t].level ELSE LogLevel_Always
WTagged(t) == op[t].name = "Write" /\ op[t].tagged
WNode(t) == IF WTagged(t) THEN 1 ELSE 0
WFormat(t) == IF op[t].name = "Write" THEN "format" ELSE "Logging started\n\n"

\* A faulty WLocks: every Write takes the mutex, whatever its level.
WLocksAlways(t) == TRUE

\* A faulty WLocks: the global overload skips the mutex at level Internal
\* as the node overload does.
WLocksUnlessInternal(t) == WLevel(t) # LogLevel_Internal

\* Whether the Write in progress takes the mutex: the global overload
\* always (line 177), the node overload unless the level is Internal
\* (lines 195-196).
WLocks(t) == ~WTagged(t) \/ WLevel(t) # LogLevel_Internal

WriteCall(t, level, tagged) ==
    /\ Begin(t, [NoOp EXCEPT !.name = "Write", !.level = level, !.tagged = tagged],
             "w_check")
    /\ UNCHANGED <<shared, prevLogging, it, out, acq>>

WriteCheck(t) ==
    /\ Goto(t, "w_check", IF ~Guard THEN "ret"
                          ELSE IF WLocks(t) THEN "w_lock" ELSE "w_loop")
    /\ it' = [it EXCEPT ![t] = 1]     \* it = m_pImpls.begin()
    /\ UNCHANGED <<shared, op, prevLogging, out, pre, acq>>

WriteLock(t) ==
    /\ Goto(t, "w_lock", "w_loop")
    /\ Lock(t)
    /\ UNCHANGED <<s_instance, logs, m_pImpls, s_dologging, impl, crashed,
                   op, prevLogging, it, out, pre>>

WriteLoop(t) ==
    FanOut(t, "w_loop", IF WLocks(t) THEN "w_unlock" ELSE "ret",
           "write", WLevel(t), WNode(t), WFormat(t))

\* A faulty WriteUnlock: the Write returns without releasing the mutex.
WriteUnlockForgets(t) ==
    /\ Goto(t, "w_unlock", "ret")
    /\ UNCHANGED <<shared, op, prevLogging, it, out, pre, acq>>

WriteUnlock(t) ==
    /\ Goto(t, "w_unlock", "ret")
    /\ Unlock(t)
    /\ UNCHANGED <<s_instance, logs, m_pImpls, s_dologging, impl, crashed,
                   op, prevLogging, it, out, pre, acq>>

\* ------------------------------------------- Log::SetLoggingState(bool)
\* A faulty SetLoggingStateBoolCall: prevLogging is read after the flag is
\* assigned, so it holds the new value.
SetLoggingStateBoolCallLate(t, dologging) ==
    /\ Begin(t, [NoOp EXCEPT !.name = "SetLoggingStateBool", !.on = dologging],
             "sb_set")
    /\ prevLogging' = [prevLogging EXCEPT ![t] = dologging]
    /\ UNCHANGED <<shared, it, out, acq>>

SetLoggingStateBoolCall(t, dologging) ==
    /\ Begin(t, [NoOp EXCEPT !.name = "SetLoggingStateBool", !.on = dologging],
             "sb_set")
    /\ prevLogging' = [prevLogging EXCEPT ![t] = s_dologging]     \* line 124
    /\ UNCHANGED <<shared, it, out, acq>>

\* A faulty SetLoggingStateBoolSet: the flag is switched on, whatever the
\* argument.
SetLoggingStateBoolSetOn(t) ==
    /\ Goto(t, "sb_set", "sb_test")
    /\ s_dologging' = TRUE
    /\ UNCHANGED <<s_instance, logs, m_pImpls, m_logMutex, impl, crashed,
                   op, prevLogging, it, out, pre, acq>>

SetLoggingStateBoolSet(t) ==
    /\ Goto(t, "sb_set", "sb_test")
    /\ s_dologging' = op[t].on                                    \* line 125
    /\ UNCHANGED <<s_instance, logs, m_pImpls, m_logMutex, impl, crashed,
                   op, prevLogging, it, out, pre, acq>>

\* A faulty BannerTest: prevLogging is not tested.
BannerTestIgnoringPrev(t, from) ==
    /\ Goto(t, from, IF s_dologging THEN "w_check" ELSE "ret")
    /\ UNCHANGED <<shared, op, prevLogging, it, out, pre, acq>>

\* Lines 127 and 156: the banner is a Write(LogLevel_Always, ...).
BannerTest(t, from) ==
    /\ Goto(t, from, IF ~prevLogging[t] /\ s_dologging THEN "w_check" ELSE "ret")
    /\ UNCHANGED <<shared, op, prevLogging, it, out, pre, acq>>

SetLoggingStateBoolTest(t) == BannerTest(t, "sb_test")

\* --------------------------------------- Log::SetLoggingState(LogLevel)
\* A faulty DoLogging: Always counts as an active level.
DoLoggingFromAlways(saveLevel) == saveLevel >= LogLevel_Always

\* Lines 139-146: the flag a save level stands for.
DoLogging(saveLevel) == saveLevel > LogLevel_Always

SetLoggingStateCall(t, saveLevel) ==
    /\ Begin(t, [NoOp EXCEPT !.name = "SetLoggingState", !.level = saveLevel],
             "sl_set")
    /\ prevLogging' = [prevLogging EXCEPT ![t] = s_dologging]     \* line 137
    /\ UNCHANGED <<shared, it, out, acq>>

SetLoggingStateSet(t) ==
    /\ Goto(t, "sl_set", "sl_check")
    /\ s_dologging' = DoLogging(op[t].level)
    /\ UNCHANGED <<s_instance, logs, m_pImpls, m_logMutex, impl, crashed,
                   op, prevLogging, it, out, pre, acq>>

\* A faulty SetLoggingStateCheck: the enabled flag is not tested.
SetLoggingStateCheckIgnoringFlag(t) ==
    /\ Goto(t, "sl_check", IF GuardIgnoringFlag THEN "sl_lock" ELSE "sl_test")
    /\ UNCHANGED <<shared, op, prevLogging, it, out, pre, acq>>

SetLoggingStateCheck(t) ==
    /\ Goto(t, "sl_check", IF Guard THEN "sl_lock" ELSE "sl_test")
    /\ UNCHANGED <<shared, op, prevLogging, it, out, pre, acq>>

SetLoggingStateLock(t) ==
    /\ Goto(t, "sl_lock", "sl_loop")
    /\ Lock(t)
    /\ it' = [it EXCEPT ![t] = 1]
    /\ UNCHANGED <<s_instance, logs, m_pImpls, s_dologging, impl, crashed,
                   op, prevLogging, out, pre>>

SetLoggingStateLoop(t) ==
    FanOut(t, "sl_loop", "sl_unlock", "setSaveLevel", op[t].level, 0, "")

SetLoggingStateUnlock(t) ==
    /\ Goto(t, "sl_unlock", "sl_test")
    /\ Unlock(t)
    /\ UNCHANGED <<s_instance, logs, m_pImpls, s_dologging, impl, crashed,
                   op, prevLogging, it, out, pre, acq>>

SetLoggingStateTest(t) == BannerTest(t, "sl_test")

\* ------------------------------------------------ Log::GetLoggingState
\* Lines 164-167: the flag is read, nothing changes.
GetLoggingState == s_dologging

\* ------------------------------------------------- Log::SetLogFileName
SetLogFileNameCall(t, filename) ==
    /\ Begin(t, [NoOp EXCEPT !.name = "SetLogFileName", !.fname = filename],
             "f_check")
    /\ UNCHANGED <<shared, prevLogging, it, out, acq>>

\* A faulty SetLogFileNameCheck: the enabled flag is not tested.
SetLogFileNameCheckIgnoringFlag(t) ==
    /\ Goto(t, "f_check", IF GuardIgnoringFlag THEN "f_lock" ELSE "ret")
    /\ UNCHANGED <<shared, op, prevLogging, it, out, pre, acq>>

SetLogFileNameCheck(t) ==
    /\ Goto(t, "f_check", IF Guard THEN "f_lock" ELSE "ret")
    /\ UNCHANGED <<shared, op, prevLogging, it, out, pre, acq>>

SetLogFileNameLock(t) ==
    /\ Goto(t, "f_lock", "f_loop")
    /\ Lock(t)
    /\ it' = [it EXCEPT ![t] = 1]
    /\ UNCHANGED <<s_instance, logs, m_pImpls, s_dologging, impl, crashed,
                   op, prevLogging, out, pre>>

SetLogFileNameLoop(t) ==
    FanOut(t, "f_loop", "f_unlock", "setTarget", op[t].fname, 0, "")

SetLogFileNameUnlock(t) ==
    /\ Goto(t, "f_unlock", "ret")
    /\ Unlock(t)
    /\ UNCHANGED <<s_instance, logs, m_pImpls, s_dologging, impl, crashed,
                   op, prevLogging, it, out, pre, acq>>

\* ------------------------------------------------ Log::SetLoggingClass
\* s_instance->m_pImpls dereferences the instance, so the call is made only
\* while one exists (section 4.2's obligation on the caller).  The sink is
\* the caller's: an object it has just constructed or one already handed
\* over (a duplicate).  The list is not grown past ListCap.
Registering == {u \in Threads : op[u].name = "SetLoggingClass"}

\* A faulty SetLoggingClassCall: Append is not tested, nothing is removed.
SetLoggingClassCallAppends(t, LogClass, isAppend) ==
    /\ s_instance # NULL
    /\ Cardinality(Registering) + Len(m_pImpls) < ListCap
    /\ Begin(t, [NoOp EXCEPT !.name = "SetLoggingClass", !.sink = LogClass,
                             !.append = isAppend],
             "c_push")
    /\ impl' = [impl EXCEPT ![LogClass] = "live"]
    /\ UNCHANGED <<s_instance, logs, m_pImpls, s_dologging, m_logMutex, crashed,
                   prevLogging, it, out, acq>>

SetLoggingClassCall(t, LogClass, isAppend) ==
    /\ s_instance # NULL
    /\ Cardinality(Registering) + (IF isAppend THEN Len(m_pImpls) ELSE 0) < ListCap
    /\ Begin(t, [NoOp EXCEPT !.name = "SetLoggingClass", !.sink = LogClass,
                             !.append = isAppend],
             IF isAppend THEN "c_push" ELSE "c_loop")
    /\ impl' = [impl EXCEPT ![LogClass] = "live"]
    /\ UNCHANGED <<s_instance, logs, m_pImpls, s_dologging, m_logMutex, crashed,
                   prevLogging, it, out, acq>>

\* Lines 102-106: while the list is not empty, delete its first sink, then
\* erase the entry.  it stays m_pImpls.begin().
SetLoggingClassLoop(t) ==
    /\ Goto(t, "c_loop", IF Len(m_pImpls) > 0 THEN "c_delete" ELSE "c_push")
    /\ UNCHANGED <<shared, op, prevLogging, it, out, pre, acq>>

\* Line 104.  Deleting an object twice, or reading *it in a list another
\* thread has emptied, is undefined.
SetLoggingClassDelete(t) ==
    /\ Goto(t, "c_delete", "c_erase")
    /\ IF Len(m_pImpls) > 0
       THEN /\ out' = [out EXCEPT ![t] =
                 Record(@, Ev("teardown", Head(m_pImpls), 0, 0, ""))]
            /\ impl' = [impl EXCEPT ![Head(m_pImpls)] = "free"]
            /\ Undefined(impl[Head(m_pImpls)] # "live")
       ELSE /\ Undefined(TRUE)
            /\ UNCHANGED <<out, impl>>
    /\ UNCHANGED <<s_instance, logs, m_pImpls, s_dologging, m_logMutex,
                   op, prevLogging, it, pre, acq>>

\* Line 105.
SetLoggingClassErase(t) ==
    /\ Goto(t, "c_erase", "c_loop")
    /\ IF Len(m_pImpls) > 0
       THEN m_pImpls' = Tail(m_pImpls) /\ Undefined(FALSE)
       ELSE UNCHANGED m_pImpls /\ Undefined(TRUE)
    /\ UNCHANGED <<s_instance, logs, s_dologging, m_logMutex, impl,
                   op, prevLogging, it, out, pre, acq>>

\* A faulty SetLoggingClassPush: registering a sink switches logging on.
SetLoggingClassPushEnables(t) ==
    /\ Goto(t, "c_push", "ret")
    /\ m_pImpls' = Append(m_pImpls, op[t].sink)
    /\ s_dologging' = TRUE
    /\ UNCHANGED <<s_instance, logs, m_logMutex, impl, crashed,
                   op, prevLogging, it, out, pre, acq>>

\* A faulty SetLoggingClassPush: the sink is inserted at the front.
SetLoggingClassPushFront(t) ==
    /\ Goto(t, "c_push", "ret")
    /\ m_pImpls' = <<op[t].sink>> \o m_pImpls
    /\ UNCHANGED <<s_instance, logs, s_dologging, m_logMutex, impl, crashed,
                   op, prevLogging, it, out, pre, acq>>

SetLoggingClassPush(t) ==
    /\ Goto(t, "c_push", "ret")
    /\ m_pImpls' = Append(m_pImpls, op[t].sink)                   \* line 108
    /\ UNCHANGED <<s_instance, logs, s_dologging, m_logMutex, impl, crashed,
                   op, prevLogging, it, out, pre, acq>>

\* ------------------------------------------- Log::Log, Log::~Log, Destroy
\* Create and Destroy are not interleaved with other calls (section 5: the
\* embedding application runs them in its single-threaded phases), so each
\* is one step, computed on a record of the shared state.
Heap == [inst |-> s_instance, logs |-> logs, list |-> m_pImpls,
         flag |-> s_dologging, mutex |-> m_logMutex, impl |-> impl,
         ub |-> FALSE, ev |-> <<>>]

Range(list) == {list[i] : i \in 1..Len(list)}

\* delete of a sink that is not live (deleted before, or twice in the list)
DoubleDelete(h) ==
    \E i \in 1..Len(h.list) :
        \/ h.impl[h.list[i]] # "live"
        \/ \E j \in 1..(i - 1) : h.list[j] = h.list[i]

\* A faulty Destructor: the static list is left as it is.
DestructorKeepsList(h) == [h EXCEPT !.mutex = NULL]

\* A faulty Destructor: the list is cleared, its sinks are not deleted.
DestructorLeaks(h) == [h EXCEPT !.mutex = NULL, !.list = <<>>]

\* Lines 239-247: release the mutex, delete and erase every sink.
Destructor(h) ==
    [h EXCEPT !.mutex = NULL,
              !.ev = @ \o [i \in 1..Len(h.list) |-> Ev("teardown", h.list[i], 0, 0, "")],
              !.impl = [s \in Sinks |-> IF s \in Range(h.list) THEN "free" ELSE h.impl[s]],
              !.ub = @ \/ DoubleDelete(h),
              !.list = <<>>]

\* A faulty DestroyOn: Destroy also switches logging off.
DestroyOnClearsFlag(h) ==
    [(IF h.inst = NULL THEN h
      ELSE [Destructor(h) EXCEPT !.logs = @ \ {h.inst}])
     EXCEPT !.inst = NULL, !.flag = FALSE]

\* Lines 89-93: delete s_instance (nothing when it is NULL); s_instance = NULL.
DestroyOn(h) ==
    [(IF h.inst = NULL THEN h
      ELSE [Destructor(h) EXCEPT !.logs = @ \ {h.inst}])
     EXCEPT !.inst = NULL]

\* Lines 226-233: new Log: a new mutex and, when the list is empty, the
\* default sink, the new object s.  The Log object takes the first free id.
Constructor(h, s) ==
    LET id == CHOOSE i \in 1..(Cardinality(h.logs) + 1) : i \notin h.logs
        k == [h EXCEPT !.inst = id, !.logs = @ \cup {id}, !.mutex = NULL]
    IN  IF Len(h.list) = 0
        THEN [k EXCEPT !.list = <<s>>,
                       !.impl = [@ EXCEPT ![s] = "live"],
                       !.ev = Append(@, Ev("construct", s, 0, 0, ""))]
        ELSE k

\* A faulty CreateOn: the flag is set only when no instance existed.
CreateOnFlagOnFirst(h, s) ==
    IF h.inst = NULL
    THEN [Constructor(h, s) EXCEPT !.flag = TRUE]
    ELSE Constructor(DestroyOn(h), s)

\* Lines 68-83.
CreateOn(h, s) ==
    IF h.inst = NULL
    THEN [Constructor(h, s) EXCEPT !.flag = TRUE]
    ELSE [Constructor(DestroyOn(h), s) EXCEPT !.flag = TRUE]

\* The shared state becomes h, and the call's sink invocations h.ev.
Becomes(t, h) ==
    /\ s_instance' = h.inst
    /\ logs' = h.logs
    /\ m_pImpls' = h.list
    /\ s_dologging' = h.flag
    /\ m_logMutex' = h.mutex
    /\ impl' = h.impl
    /\ Undefined(h.ub)
    /\ out' = [out EXCEPT ![t] = IF serial THEN h.ev ELSE <<>>]

Create(t) ==
    /\ ~crashed /\ AllIdle
    /\ Begin(t, [NoOp EXCEPT !.name = "Create"], "ret")
    /\ \E s \in Sinks :
          /\ DestroyOn(Heap).impl[s] # "live"       \* new returns a free object
          /\ Becomes(t, CreateOn(Heap, s))
    /\ UNCHANGED <<prevLogging, it, acq>>

Destroy(t) ==
    /\ ~crashed /\ AllIdle
    /\ Begin(t, [NoOp EXCEPT !.name = "Destroy"], "ret")
    /\ Becomes(t, DestroyOn(Heap))
    /\ UNCHANGED <<prevLogging, it, acq>>

\* ------------------------------------------------------------ return
Return(t) ==
    /\ ~crashed
    /\ pc[t] = "ret"
    /\ pc' = [pc EXCEPT ![t] = "idle"]
    /\ op' = [op EXCEPT ![t] = NoOp]
    /\ prevLogging' = [prevLogging EXCEPT ![t] = FALSE]
    /\ it' = [it EXCEPT ![t] = 0]
    /\ out' = [out EXCEPT ![t] = <<>>]
    /\ pre' = [pre EXCEPT ![t] = NoPre]
    /\ acq' = [acq EXCEPT ![t] = 0]
    /\ UNCHANGED <<shared, serial>>

\* ------------------------------------------------------------ specification
\* The calls a thread may begin, and the statements of a call in progress.
Call(t) ==
    \/ Create(t)
    \/ Destroy(t)
    \/ CanCall(t) /\ \E LogClass \in Sinks, isAppend \in BOOLEAN :
          SetLoggingClassCall(t, LogClass, isAppend)
    \/ CanCall(t) /\ \E dologging \in BOOLEAN :
          SetLoggingStateBoolCall(t, dologging)
    \/ CanCall(t) /\ \E saveLevel \in SaveLevels :
          SetLoggingStateCall(t, saveLevel)
    \/ CanCall(t) /\ \E filename \in FileNames :
          SetLogFileNameCall(t, filename)
    \/ CanCall(t) /\ \E level \in WriteLevels, tagged \in BOOLEAN :
          WriteCall(t, level, tagged)

Step(t) ==
    \/ SetLoggingClassLoop(t)
    \/ SetLoggingClassDelete(t)
    \/ SetLoggingClassErase(t)
    \/ SetLoggingClassPush(t)
    \/ SetLoggingStateBoolSet(t)
    \/ SetLoggingStateBoolTest(t)
    \/ SetLoggingStateSet(t)
    \/ SetLoggingStateCheck(t)
    \/ SetLoggingStateLock(t)
    \/ SetLoggingStateLoop(t)
    \/ SetLoggingStateUnlock(t)
    \/ SetLoggingStateTest(t)
    \/ SetLogFileNameCheck(t)
    \/ SetLogFileNameLock(t)
    \/ SetLogFileNameLoop(t)
    \/ SetLogFileNameUnlock(t)
    \/ WriteCheck(t)
    \/ WriteLock(t)
    \/ WriteLoop(t)
    \/ WriteUnlock(t)
    \/ Return(t)

\* Threads call concurrently.
Next == \E t \in Threads : Call(t) \/ Step(t)

Spec == Init /\ [][Next]_vars

\* One call at a time: a call begins only when no other is in progress,
\* and the histories of each call are kept.
InitSeq == InitWith(TRUE)

SpecSeq == InitSeq /\ [][Next]_vars

\* The manager and its sinks are fixed: an instance exists with its sinks
\* registered, logging is on or off, and the threads only call Write.
InitFixed ==
    /\ serial = FALSE
    /\ s_instance = 1
    /\ logs = {1}
    /\ m_pImpls \in {[i \in 1..n |-> i] : n \in 1..ConcMaxSinks}
    /\ s_dologging \in BOOLEAN
    /\ m_logMutex = NULL
    /\ impl = [s \in Sinks |-> IF s <= Len(m_pImpls) THEN "live" ELSE "free"]
    /\ crashed = FALSE
    /\ pc = [t \in Threads |-> "idle"]
    /\ op = [t \in Threads |-> NoOp]
    /\ prevLogging = [t \in Threads |-> FALSE]
    /\ it = [t \in Threads |-> 0]
    /\ out = [t \in Threads |-> <<>>]
    /\ pre = [t \in Threads |-> NoPre]
    /\ acq = [t \in Threads |-> 0]

CallFixed(t) ==
    CanCall(t) /\ \E level \in WriteLevels, tagged \in BOOLEAN :
        WriteCall(t, level, tagged)

StepFixed(t) ==
    \/ WriteCheck(t)
    \/ WriteLock(t)
    \/ WriteLoop(t)
    \/ WriteUnlock(t)
    \/ Return(t)

NextFixed == \E t \in Threads : CallFixed(t) \/ StepFixed(t)

SpecFixed == InitFixed /\ [][NextFixed]_vars

\* The manager and its sinks are fixed, and the threads call Write,
\* SetLogFileName and both SetLoggingState.  The scheduler is fair: a thread
\* that can take a step eventually takes one, and a thread that waits for
\* the mutex eventually gets it if the mutex is freed again and again.
CallLive(t) ==
    \/ CanCall(t) /\ \E level \in WriteLevels, tagged \in BOOLEAN :
          WriteCall(t, level, tagged)
    \/ CanCall(t) /\ \E dologging \in BOOLEAN :
          SetLoggingStateBoolCall(t, dologging)
    \/ CanCall(t) /\ \E saveLevel \in SaveLevels :
          SetLoggingStateCall(t, saveLevel)
    \/ CanCall(t) /\ \E filename \in FileNames :
          SetLogFileNameCall(t, filename)

LockStep(t) ==
    \/ WriteLock(t)
    \/ SetLoggingStateLock(t)
    \/ SetLogFileNameLock(t)

StepLive(t) ==
    \/ SetLoggingStateBoolSet(t)
    \/ SetLoggingStateBoolTest(t)
    \/ SetLoggingStateSet(t)
    \/ SetLoggingStateCheck(t)
    \/ SetLoggingStateLoop(t)
    \/ SetLoggingStateUnlock(t)
    \/ SetLoggingStateTest(t)
    \/ SetLogFileNameCheck(t)
    \/ SetLogFileNameLoop(t)
    \/ SetLogFileNameUnlock(t)
    \/ WriteCheck(t)
    \/ WriteLoop(t)
    \/ WriteUnlock(t)
    \/ Return(t)

NextLive == \E t \in Threads : CallLive(t) \/ LockStep(t) \/ StepLive(t)

Fairness ==
    \A t \in Threads : WF_vars(StepLive(t)) /\ SF_vars(LockStep(t))

SpecLive == InitFixed /\ [][NextLive]_vars /\ Fairness

TypeOK ==
    /\ s_instance \in {NULL} \cup logs
    /\ Len(m_pImpls) <= ListCap
    /\ m_logMutex \in {NULL} \cup Threads

\* ===================================================================
\* Properties
\* ===================================================================
\* Thread t is back from a call of the named operation.
Returned(t, name) == ~crashed /\ pc[t] = "ret" /\ op[t].name = name

\* The writes among a call's sink invocations.
WritesOf(t) == SelectSeq(out[t], LAMBDA e : e.m = "write")

\* One method invoked once on every sink of list, in the list's order.
FanOutOf(list, method, arg, node, format) ==
    [i \in 1..Len(list) |-> Ev(method, list[i], arg, node, format)]

\* C1: a Write, of either overload, that begins with no instance, or with
\* the flag false, or with an empty sink list, invokes no sink method, never
\* acquires the mutex, and leaves the instance, the flag and the sink list
\* as they were: it goes from its test straight to its return.
C1_WriteNoOp ==
    \A t \in Threads :
        (/\ op[t].name = "Write"
         /\ (pre[t].inst = NULL \/ ~pre[t].flag \/ pre[t].list = <<>>))
        => /\ pc[t] \in {"w_check", "ret"}
           /\ out[t] = <<>>
           /\ acq[t] = 0
           /\ m_logMutex = NULL
           /\ Snapshot = pre[t]
           /\ ~crashed

\* A node-tagged Write has returned that began with an instance and sinks
\* but with logging disabled.
C1_Witness ==
    \E t \in Threads :
        /\ Returned(t, "Write") /\ op[t].tagged
        /\ pre[t].inst # NULL /\ Len(pre[t].list) = 2 /\ ~pre[t].flag

\* Thread t invokes write on a sink in this step.
WriteInvokes(t) == pc[t] = "w_loop" /\ it'[t] = it[t] + 1

\* Thread u is inside the fan-out of a Write: it has invoked write on some
\* sink of the list and not yet on all.
MidFanOut(u) == pc[u] = "w_loop" /\ 1 < it[u] /\ it[u] <= Len(m_pImpls)

\* A node-tagged Write at level Internal, the call that skips the mutex.
NodeInternal(t) ==
    op[t].name = "Write" /\ op[t].tagged /\ op[t].level = LogLevel_Internal

\* C2 as stated: with the manager and the sinks fixed, no Write invokes a
\* sink while another thread's Write is inside its fan-out.
C2_NoInterleave ==
    [][\A t, u \in Threads :
          (t # u /\ WriteInvokes(t)) => ~MidFanOut(u)]_vars

\* C2 as amended: with the manager and the sinks fixed, two Writes of which
\* neither is a node-tagged Write at level Internal never interleave their
\* fan-outs: neither invokes a sink while the other is inside its fan-out.
C2_NoInterleaveLocked ==
    [][\A t, u \in Threads :
          (t # u /\ WriteInvokes(t) /\ ~NodeInternal(t) /\ ~NodeInternal(u))
          => ~MidFanOut(u)]_vars

\* One Write is inside its fan-out, holding the mutex, while another
\* thread's Write waits for the mutex.
C2_Witness ==
    \E t, u \in Threads :
        /\ t # u
        /\ op[t].name = "Write" /\ ~NodeInternal(t) /\ MidFanOut(t)
        /\ m_logMutex = t
        /\ op[u].name = "Write" /\ ~NodeInternal(u) /\ pc[u] = "w_lock"

\* The step is one of thread t: each statement moves its pc or its iterator.
Acting(t) == pc'[t] # pc[t] \/ it'[t] # it[t]

ConfigCalls ==
    {"SetLoggingStateBool", "SetLoggingState", "SetLoggingClass", "SetLogFileName"}

\* C3 as stated: a step of a configuration call that changes the enabled
\* flag or the sink list is taken by a thread that holds the mutex.
C3_MutationUnderMutex ==
    [][\A t \in Threads :
          (/\ Acting(t)
           /\ op'[t].name \in ConfigCalls
           /\ (s_dologging' # s_dologging \/ m_pImpls' # m_pImpls))
          => m_logMutex = t]_vars

\* C4: when Create has returned, exactly one Log object is live, it is
\* s_instance, and the enabled flag is true, whatever the state before.
C4_CreateOneInstanceEnabled ==
    \A t \in Threads :
        Returned(t, "Create")
        => s_instance # NULL /\ logs = {s_instance} /\ s_dologging

\* Create has returned from a state with an instance and logging disabled.
C4_Witness ==
    \E t \in Threads :
        Returned(t, "Create") /\ pre[t].inst # NULL /\ ~pre[t].flag

\* C5: a Create that finds an instance tears down every registered sink, in
\* order, before it constructs the new default sink, and leaves one live Log
\* object, a sink list holding the new default sink alone, and no other
\* sink alive.
C5_RecreateTearsDown ==
    \A t \in Threads :
        (Returned(t, "Create") /\ pre[t].inst # NULL)
        => LET n == Len(pre[t].list) IN
           /\ Len(out[t]) = n + 1
           /\ SubSeq(out[t], 1, n) = FanOutOf(pre[t].list, "teardown", 0, 0, "")
           /\ out[t][n + 1].m = "construct"
           /\ m_pImpls = <<out[t][n + 1].s>>
           /\ s_instance # NULL /\ logs = {s_instance}
           /\ {s \in Sinks : impl[s] = "live"} = {out[t][n + 1].s}

\* Create has returned after replacing an instance whose list held the
\* first default sink and a sink added by SetLoggingClass.
C5_Witness ==
    \E t \in Threads :
        /\ Returned(t, "Create") /\ pre[t].inst # NULL
        /\ Len(pre[t].list) = 2 /\ pre[t].list[1] # pre[t].list[2]

\* C6: in SetLoggingClass(sink, false) every sink registered before has been
\* torn down and removed, in order, when the new sink is pushed; the list
\* is <<sink>> on return; and a Write that begins enabled with a one-sink
\* list invokes write on that sink and nothing else.
C6_ReplaceTearsDownAll ==
    \A t \in Threads :
        /\ (op[t].name = "SetLoggingClass" /\ ~op[t].append /\ ~crashed)
           => /\ pc[t] = "c_push"
                 => /\ m_pImpls = <<>>
                    /\ out[t] = FanOutOf(pre[t].list, "teardown", 0, 0, "")
              /\ pc[t] = "ret"
                 => /\ m_pImpls = <<op[t].sink>>
                    /\ out[t] = FanOutOf(pre[t].list, "teardown", 0, 0, "")
        /\ (/\ Returned(t, "Write")
            /\ pre[t].inst # NULL /\ pre[t].flag /\ Len(pre[t].list) = 1)
           => out[t] = <<Ev("write", pre[t].list[1], op[t].level,
                            IF op[t].tagged THEN 1 ELSE 0, "format")>>

\* SetLoggingClass(sink, false) has returned after replacing two sinks by a
\* new one.
C6_Witness ==
    \E t \in Threads :
        /\ Returned(t, "SetLoggingClass") /\ ~op[t].append
        /\ Len(pre[t].list) = 2
        /\ op[t].sink \notin Range(pre[t].list)

\* C7: SetLoggingClass(sink, true) appends sink and tears nothing down; a
\* Write that begins enabled, with an instance and sinks, invokes write once
\* on every sink of the list, in the list's order, at whatever level it was
\* given; and the calls that do not register leave the list as it was.
C7_FanOutInRegistrationOrder ==
    \A t \in Threads :
        /\ (Returned(t, "SetLoggingClass") /\ op[t].append)
           => m_pImpls = Append(pre[t].list, op[t].sink) /\ out[t] = <<>>
        /\ (/\ Returned(t, "Write")
            /\ pre[t].inst # NULL /\ pre[t].flag /\ pre[t].list # <<>>)
           => out[t] = FanOutOf(pre[t].list, "write", op[t].level,
                                IF op[t].tagged THEN 1 ELSE 0, "format")
        /\ (/\ ~crashed /\ pc[t] = "ret"
            /\ op[t].name \in {"Write", "SetLoggingStateBool", "SetLoggingState",
                               "SetLogFileName"})
           => m_pImpls = pre[t].list

\* A Write at level None has returned that began enabled with three
\* different sinks registered: the default sink, then A, then B.
C7_Witness ==
    \E t \in Threads :
        /\ Returned(t, "Write") /\ op[t].level = LogLevel_None
        /\ pre[t].inst # NULL /\ pre[t].flag
        /\ Len(pre[t].list) = 3 /\ Cardinality(Range(pre[t].list)) = 3
        /\ Len(out[t]) = 3

\* The "Logging started" writes among a call's sink invocations, and the
\* banner forwarded once to every sink of list.
Banner == "Logging started\n\n"
BannersOf(t) == SelectSeq(out[t], LAMBDA e : e.m = "write" /\ e.f = Banner)
BannerTo(list) == FanOutOf(list, "write", LogLevel_Always, 0, Banner)

\* C8: a SetLoggingState(level) that finds the flag false and is given a
\* level above Always forwards the banner, at level Always, exactly once to
\* every sink registered at that moment, in order; every other
\* SetLoggingState(level) writes nothing to any sink.
C8_BannerOnLevelEdge ==
    \A t \in Threads :
        Returned(t, "SetLoggingState")
        => WritesOf(t) = IF ~pre[t].flag /\ op[t].level > LogLevel_Always
                         THEN BannerTo(pre[t].list)
                         ELSE <<>>

\* SetLoggingState(level) has returned from a disabled state with two sinks
\* registered, given a level above Always, and the banner went to both.
C8_Witness ==
    \E t \in Threads :
        /\ Returned(t, "SetLoggingState")
        /\ ~pre[t].flag /\ op[t].level > LogLevel_Always
        /\ Len(pre[t].list) = 2 /\ Len(WritesOf(t)) = 2

\* C9 as stated: whenever SetLoggingState(bool), SetLoggingState(level) or
\* Create has taken the flag from false to true, the banner was emitted, once
\* to every registered sink.
C9_BannerOnEveryEnable ==
    \A t \in Threads :
        (/\ ~crashed /\ pc[t] = "ret"
         /\ op[t].name \in {"SetLoggingStateBool", "SetLoggingState", "Create"}
         /\ ~pre[t].flag /\ s_dologging)
        => BannersOf(t) # <<>> /\ BannersOf(t) = BannerTo(m_pImpls)

\* C9 as amended: with calls made one at a time, a SetLoggingState(bool) or
\* SetLoggingState(level) that takes the flag from false to true forwards the
\* banner exactly once to every sink registered at that moment (to none when
\* no instance exists: there is no sink then); Create, which also takes the
\* flag from false to true, emits no banner, and neither does any other call.
C9_BannerOnSetLoggingStateEdge ==
    \A t \in Threads :
        (~crashed /\ pc[t] = "ret")
        => BannersOf(t) =
              IF /\ op[t].name \in {"SetLoggingStateBool", "SetLoggingState"}
                 /\ ~pre[t].flag /\ s_dologging
              THEN BannerTo(pre[t].list)
              ELSE <<>>

\* SetLoggingState(true) has returned from a disabled state with an
\* instance, and its banner reached the sinks.
C9_Witness ==
    \E t \in Threads :
        /\ Returned(t, "SetLoggingStateBool") /\ op[t].on
        /\ ~pre[t].flag /\ pre[t].inst # NULL
        /\ BannersOf(t) # <<>>

\* C10: a Destroy that finds no instance does not fail, invokes no sink
\* method and leaves the instance absent and the sink list and the flag as
\* they were; and every Destroy leaves the instance absent and the flag as
\* it was, so that a second Destroy is such a call.
C10_DestroyIdempotent ==
    \A t \in Threads :
        (pc[t] = "ret" /\ op[t].name = "Destroy")
        => /\ pre[t].inst = NULL
              => ~crashed /\ out[t] = <<>> /\ Snapshot = pre[t]
           /\ ~crashed
              => /\ s_instance = NULL /\ logs = {} /\ m_pImpls = <<>>
                 /\ s_dologging = pre[t].flag

\* Destroy has returned from a state with no instance and the flag true.
C10_Witness ==
    \E t \in Threads :
        Returned(t, "Destroy") /\ pre[t].inst = NULL /\ pre[t].flag

\* A Write at level Internal, through either overload.
AnyInternal(t) == op[t].name = "Write" /\ op[t].level = LogLevel_Internal

C12_FlagIsLevelAboveAlways ==
    \A t \in Threads :
        Returned(t, "SetLoggingState") =>
            (GetLoggingState <=> op[t].level \in LogLevel_Fatal..LogLevel_Internal)

\* SetLoggingState(Always) has returned from an enabled state with an
\* instance, and logging is disabled.
C12_Witness ==
    \E t \in Threads :
        /\ Returned(t, "SetLoggingState") /\ op[t].level = LogLevel_Always
        /\ pre[t].inst # NULL /\ pre[t].flag /\ ~GetLoggingState

SaveLevelsTold(t) == SelectSeq(out[t], LAMBDA e : e.m = "setSaveLevel")
Propagates(t) ==
    pre[t].inst # NULL /\ op[t].level > LogLevel_Always /\ pre[t].list # <<>>

\* C14: SetLoggingState(saveLevel) invokes setSaveLevel(saveLevel) once on
\* every registered sink, in order, holding the mutex, exactly when an
\* instance exists, saveLevel > Always and the list is not empty, and on no
\* sink otherwise; the propagation is complete and the mutex free before the
\* banner Write begins, and the mutex is taken once for the propagation and
\* once for the banner.
C14_PropagatesUnderMutex ==
    \A t \in Threads :
        op[t].name = "SetLoggingState" =>
            /\ pc[t] \in {"sl_unlock", "sl_test", "w_check", "w_lock", "w_loop",
                          "w_unlock", "ret"}
               => SaveLevelsTold(t) =
                      IF Propagates(t)
                      THEN FanOutOf(pre[t].list, "setSaveLevel", op[t].level, 0, "")
                      ELSE <<>>
            /\ pc[t] = "sl_loop" => m_logMutex = t
            /\ pc[t] \in {"sl_test", "w_check", "ret"} => m_logMutex = NULL
            /\ out[t] = SaveLevelsTold(t) \o BannersOf(t)
            /\ pc[t] = "ret"
               => acq[t] = (IF Propagates(t) THEN 1 ELSE 0)
                           + (IF BannersOf(t) # <<>> THEN 1 ELSE 0)

\* SetLoggingState(level), on a disabled-to-enabled edge with three sinks,
\* has told all three and released the mutex, and its banner Write begins.
C14_Witness ==
    \E t \in Threads :
        /\ op[t].name = "SetLoggingState" /\ pc[t] = "w_check"
        /\ ~pre[t].flag /\ Len(SaveLevelsTold(t)) = 3 /\ m_logMutex = NULL

\* C15: SetLogFileName(name) invokes setTarget(name) once on every registered
\* sink, in order, holding the mutex, exactly when an instance exists, the
\* flag is true and the list is not empty; otherwise it invokes nothing and
\* never locks; it changes neither instance, flag nor list; and no other
\* call invokes setTarget, so a rename made while disabled is never delivered.
C15_RenameFansOutOnlyEnabled ==
    \A t \in Threads :
        /\ op[t].name = "SetLogFileName" =>
            LET delivers ==
                    pre[t].inst # NULL /\ pre[t].flag /\ pre[t].list # <<>>
            IN  /\ pc[t] = "ret"
                   => /\ out[t] = IF delivers
                                  THEN FanOutOf(pre[t].list, "setTarget",
                                                op[t].fname, 0, "")
                                  ELSE <<>>
                      /\ acq[t] = IF delivers THEN 1 ELSE 0
                      /\ m_logMutex = NULL
                /\ pc[t] = "f_loop" => m_logMutex = t
                /\ Snapshot = pre[t]
        /\ op[t].name # "SetLogFileName" =>
            \A i \in 1..Len(out[t]) : out[t][i].m # "setTarget"

\* SetLogFileName has returned after renaming three sinks.
C15_Witness ==
    \E t \in Threads :
        /\ Returned(t, "SetLogFileName")
        /\ pre[t].flag /\ Len(pre[t].list) = 3 /\ Len(out[t]) = 3

\* Thread t is in a fan-out loop under the mutex, and the step invokes a
\* method of a sink.
InFanOut(t) == pc[t] \in {"w_loop", "sl_loop", "f_loop"} /\ m_logMutex = t
Invokes(t) == InFanOut(t) /\ it'[t] = it[t] + 1

\* C16 as stated, for the fan-outs that hold the mutex (those of a
\* node-tagged Write at level Internal, which takes none, are left aside):
\* no step of a fan-out invokes a sink that was torn down, and while a
\* thread is in a fan-out no step removes a sink from the list or tears
\* down a sink of it.
C16_NoFanOutOnTornDown ==
    [][/\ \A t \in Threads :
              Invokes(t) => impl[m_pImpls[it[t]]] = "live"
       /\ (\E u \in Threads : InFanOut(u))
          => /\ Len(m_pImpls') >= Len(m_pImpls)
             /\ \A i \in 1..Len(m_pImpls) :
                    /\ m_pImpls'[i] = m_pImpls[i]
                    /\ impl[m_pImpls[i]] = "live" => impl'[m_pImpls[i]] = "live"]_vars

\* Thread t waits for the mutex.
AtLock(t) == pc[t] \in {"w_lock", "sl_lock", "f_lock"}

\* C17: with the manager and the sinks fixed and a fair scheduler, every
\* call of Write, SetLogFileName and SetLoggingState that has begun returns,
\* and a held mutex becomes free again; no thread waits for the mutex while
\* it holds it itself (the banner Write of SetLoggingState included), and no
\* thread holds it when its call returns.
C17_CallsReturnMutexFreed ==
    /\ \A t \in Threads : (pc[t] # "idle") ~> (pc[t] = "idle")
    /\ (m_logMutex # NULL) ~> (m_logMutex = NULL)
    /\ [](\A t \in Threads :
              /\ AtLock(t) => m_logMutex # t
              /\ pc[t] \in {"idle", "ret"} => m_logMutex # t)

\* The banner Write of a SetLoggingState waits for the mutex while another
\* thread's call holds it inside a fan-out.
C17_Witness ==
    \E t, u \in Threads :
        /\ t # u
        /\ op[t].name \in {"SetLoggingState", "SetLoggingStateBool"}
        /\ pc[t] = "w_lock"
        /\ m_logMutex = u /\ InFanOut(u)

\* The teardowns among a call's sink invocations.
TeardownsOf(t) == SelectSeq(out[t], LAMBDA e : e.m = "teardown")

\* C18 as stated: no call tears the same sink down twice, and between calls
\* every entry of the sink list is a sink that has not been torn down.
C18_TeardownOnceNoDangling ==
    /\ \A t \in Threads :
           \A i, j \in 1..Len(TeardownsOf(t)) :
               i # j => TeardownsOf(t)[i].s # TeardownsOf(t)[j].s
    /\ (\A t \in Threads : pc[t] \in {"idle", "ret"})
       => \A i \in 1..Len(m_pImpls) : impl[m_pImpls[i]] = "live"

\* C19: between calls the sink list is non-empty exactly when an instance
\* exists; SetLoggingClass returns with the new sink last in the list; and a
\* Destroy that found an instance has torn down every registered sink, in
\* order, and returns with the list empty and the instance absent.
C19_ListNonEmptyIffInstance ==
    /\ (\A t \in Threads : pc[t] \in {"idle", "ret"})
       => (s_instance # NULL <=> m_pImpls # <<>>)
    /\ \A t \in Threads :
           /\ (pc[t] = "ret" /\ op[t].name = "SetLoggingClass")
              => m_pImpls # <<>> /\ m_pImpls[Len(m_pImpls)] = op[t].sink
           /\ (pc[t] = "ret" /\ op[t].name = "Destroy" /\ pre[t].inst # NULL)
              => /\ m_pImpls = <<>>
                 /\ s_instance = NULL
                 /\ out[t] = FanOutOf(pre[t].list, "teardown", 0, 0, "")

\* Destroy has returned after tearing down three registered sinks.
C19_Witness ==
    \E t \in Threads :
        /\ pc[t] = "ret" /\ op[t].name = "Destroy"
        /\ Len(pre[t].list) = 3 /\ Len(out[t]) = 3
        /\ m_pImpls = <<>> /\ s_instance = NULL

\* The calls that set the enabled flag.
FlagSetters == {"Create", "SetLoggingStateBool", "SetLoggingState"}

\* C20: the flag is false at start-up, and every step that changes it is a
\* step of Create or of one of the two SetLoggingState; Destroy, Write,
\* SetLogFileName and SetLoggingClass never change it, so it keeps its value
\* across Destroy.
C20_FlagChangedOnlyBySetters ==
    /\ s_dologging = FALSE
    /\ [][s_dologging' # s_dologging
          => \E t \in Threads : Acting(t) /\ op'[t].name \in FlagSetters]_vars

\* Destroy has returned from an enabled state with an instance: no instance
\* exists and the flag is still true.
C20_Witness ==
    \E t \in Threads :
        /\ Returned(t, "Destroy") /\ pre[t].inst # NULL /\ pre[t].flag
        /\ s_instance = NULL /\ GetLoggingState

====
